---- MODULE Spec2Model ----
(***************************************************************************)
(* Line-oriented stream transformers of genhub: the BeeBase header and     *)
(* annotation passes (genhub/beebase.py) and the intron accession pass     *)
(* (genhub/datatypes.py).                                                  *)
(*                                                                         *)
(* A text line is a sequence of one-character strings, so that the string  *)
(* primitives the code relies on (startswith, replace, split, rstrip, the  *)
(* regular expressions) are computed character by character.  Every pass   *)
(* is a loop over an input iterator: one action is one iteration of that   *)
(* loop on the next line delivered, `instream` is the sequence of lines    *)
(* delivered so far, and Exhausted is the iterator running out.            *)
(***************************************************************************)
EXTENDS Integers, Sequences, FiniteSets, TLC

VARIABLES instream, pc, label, protids, locusid2name, gene2loci, pairs,
          id_to_accession, yielded, outstream, reformatted

vars == <<instream, pc, label, protids, locusid2name, gene2loci, pairs,
          id_to_accession, yielded, outstream, reformatted>>

----------------------------------------------------------------------------
(* Bounds on the length of the input streams explored.                     *)

MaxMappingLines == 4

MaxProtidLines == 3

MaxIntronLines == 3

MaxGdnaLines == 3

MaxProtLines == 3

MaxAnnotationLines == 4

----------------------------------------------------------------------------
(* Python string primitives.                                               *)

Min(S) == CHOOSE m \in S : \A n \in S : m <= n

Max(S) == CHOOSE m \in S : \A n \in S : n <= m

\* str.startswith(p) at offset i (1-based)
StartsAt(s, i, p) ==
  /\ i >= 1
  /\ i + Len(p) - 1 <= Len(s)
  /\ \A k \in 1..Len(p) : s[i + k - 1] = p[k]

startswith(s, p) == StartsAt(s, 1, p)

\* p in s
Contains(s, p) == \E i \in 1..Len(s) : StartsAt(s, i, p)

\* number of (possibly overlapping) occurrences of p in s
Occurrences(s, p) == Cardinality({i \in 1..Len(s) : StartsAt(s, i, p)})

RECURSIVE replace(_, _, _)
\* s.replace(old, new): every non-overlapping occurrence, left to right
replace(s, old, new) ==
  IF Len(s) < Len(old) THEN s
  ELSE IF StartsAt(s, 1, old)
       THEN new \o replace(SubSeq(s, Len(old) + 1, Len(s)), old, new)
       ELSE <<Head(s)>> \o replace(Tail(s), old, new)

RECURSIVE split(_, _)
\* s.split(c) for a one-character separator c
split(s, c) ==
  IF \A i \in 1..Len(s) : s[i] # c THEN <<s>>
  ELSE LET cut == CHOOSE i \in 1..Len(s) : s[i] = c /\ \A k \in 1..(i - 1) : s[k] # c IN
       <<SubSeq(s, 1, cut - 1)>> \o split(SubSeq(s, cut + 1, Len(s)), c)

Whitespace == {" ", "\t", "\n", "\r", "\f"}

RECURSIVE rstrip(_)
\* s.rstrip(): every trailing whitespace character is removed
rstrip(s) ==
  IF s # <<>> /\ s[Len(s)] \in Whitespace THEN rstrip(SubSeq(s, 1, Len(s) - 1)) ELSE s

----------------------------------------------------------------------------
(* The regular expressions, as re.search computes them: the leftmost start *)
(* at which the pattern matches, every quantifier greedy.                  *)

NoMatch == [matched |-> FALSE, g1 |-> <<>>, g2 |-> <<>>]

\* the class [^;\n]
ValueStop == {";", "\n"}

\* last index of the longest run of characters outside `stop` from index b
RunEnd(s, b, stop) ==
  Max({e \in (b - 1)..Len(s) : \A k \in b..e : s[k] \notin stop})

\* re.search(key + '([^;\n]+)', s)
SearchValue(key, s) ==
  LET n == Len(key)
      at == {i \in 1..Len(s) : /\ StartsAt(s, i, key)
                               /\ i + n <= Len(s)
                               /\ s[i + n] \notin ValueStop}
  IN IF at = {} THEN NoMatch
     ELSE LET b == Min(at) + n IN
          [matched |-> TRUE, g1 |-> SubSeq(s, b, RunEnd(s, b, ValueStop)), g2 |-> <<>>]

\* the starts j of key2 that `;.*key2([^;\n]+)` can reach when group 1 of
\* key1([^;\n]+) begins at b: group 1 runs up to a ';', and '.' stops at '\n'
LaterKeys(s, b, key2) ==
  LET e == RunEnd(s, b, ValueStop) IN
  IF ~(e >= b /\ e + 1 <= Len(s) /\ s[e + 1] = ";") THEN {}
  ELSE {j \in (e + 2)..Len(s) :
          /\ StartsAt(s, j, key2)
          /\ j + Len(key2) <= Len(s)
          /\ s[j + Len(key2)] \notin ValueStop
          /\ \A k \in (e + 2)..(j - 1) : s[k] # "\n"}

\* re.search(key1 + '([^;\n]+);.*' + key2 + '([^;\n]+)', s)
SearchValueThenLater(key1, key2, s) ==
  LET n == Len(key1)
      at == {i \in 1..Len(s) : StartsAt(s, i, key1) /\ LaterKeys(s, i + n, key2) # {}}
  IN IF at = {} THEN NoMatch
     ELSE LET b == Min(at) + n
              c == Max(LaterKeys(s, b, key2)) + Len(key2)
          IN [matched |-> TRUE,
              g1 |-> SubSeq(s, b, RunEnd(s, b, ValueStop)),
              g2 |-> SubSeq(s, c, RunEnd(s, c, ValueStop))]

\* re.search(key1 + '([^;\n]+);' + key2 + '([^;\n]+)', s)
SearchValueThenNext(key1, key2, s) ==
  LET n == Len(key1)
      NextAt(i) == RunEnd(s, i + n, ValueStop) + 2
      at == {i \in 1..Len(s) :
               /\ StartsAt(s, i, key1)
               /\ NextAt(i) - 2 >= i + n
               /\ NextAt(i) - 1 <= Len(s)
               /\ s[NextAt(i) - 1] = ";"
               /\ StartsAt(s, NextAt(i), key2)
               /\ NextAt(i) + Len(key2) <= Len(s)
               /\ s[NextAt(i) + Len(key2)] \notin ValueStop}
  IN IF at = {} THEN NoMatch
     ELSE LET b == Min(at) + n
              c == NextAt(Min(at)) + Len(key2)
          IN [matched |-> TRUE,
              g1 |-> SubSeq(s, b, RunEnd(s, b, ValueStop)),
              g2 |-> SubSeq(s, c, RunEnd(s, c, ValueStop))]

GnlPrefix == <<">", "g", "n", "l", "|">>

\* re.search('>gnl\|[^\|]+\|(\S+)', s)
SearchGnl(s) ==
  LET IdAt(i) == RunEnd(s, i + 5, {"|"}) + 2
      at == {i \in 1..Len(s) :
               /\ StartsAt(s, i, GnlPrefix)
               /\ IdAt(i) - 2 >= i + 5
               /\ IdAt(i) - 1 <= Len(s)
               /\ IdAt(i) <= Len(s)
               /\ s[IdAt(i)] \notin Whitespace}
  IN IF at = {} THEN NoMatch
     ELSE LET c == IdAt(Min(at)) IN
          [matched |-> TRUE, g1 |-> SubSeq(s, c, RunEnd(s, c, Whitespace)), g2 |-> <<>>]

----------------------------------------------------------------------------
(* Literals of the source.                                                 *)

kID == <<"I", "D", "=">>

kName == <<"N", "a", "m", "e", "=">>

kParent == <<"P", "a", "r", "e", "n", "t", "=">>

kAccession == <<"a", "c", "c", "e", "s", "s", "i", "o", "n", "=">>

tLocus == <<"l", "o", "c", "u", "s">>

tGene == <<"g", "e", "n", "e">>

tMRNA == <<"m", "R", "N", "A">>

tIntron == <<"i", "n", "t", "r", "o", "n">>

tExon == <<"e", "x", "o", "n">>

sRA == <<"-", "R", "A">>

sPA == <<"-", "P", "A">>

sScaffold == <<"s", "c", "a", "f", "f", "o", "l", "d">>

sGroup == <<"G", "r", "o", "u", "p">>

sScf == <<"S", "c", "f", "_">>

Ops == {"gff3_protids", "protein_mapping", "parse_intron_accessions",
        "format_gdna", "format_prot"}

\* a dict with no entries
EmptyDict == [k \in {} |-> <<>>]

\* d[k] = v
DictSet(d, k, v) == (k :> v) @@ d

----------------------------------------------------------------------------
(* BeeBaseDB.gff3_protids: one iteration of `for line in instream`.        *)

\* namematch.group(1).replace('-RA', '-PA')
gff3_protid(name) == replace(name, sRA, sPA)

\* '\tmRNA\t' not in line
gff3_skips(line) == ~Contains(line, <<"\t">> \o tMRNA \o <<"\t">>)

\* what the iteration yields and whether the assert raised
gff3_protids_line(line) ==
  IF gff3_skips(line) THEN [yield |-> <<>>, raised |-> FALSE]
  ELSE LET namematch == SearchValue(kName, line) IN
       IF ~namematch.matched THEN [yield |-> <<>>, raised |-> TRUE]
       ELSE [yield |-> <<gff3_protid(namematch.g1)>>, raised |-> FALSE]

----------------------------------------------------------------------------
(* BeeBaseDB.protein_mapping: one iteration of `for line in instream`.     *)

\* idmatch.group(2).replace('-RA', '-PA')
mapping_protid(name) == replace(name, sRA, sPA)

\* gene2loci[geneid] = ilocusid
gene_record(g2l, geneid, ilocusid) == DictSet(g2l, geneid, ilocusid)

\* variant: locusid2name.setdefault(locusid, locusname), the first name is kept
locus_record_keeps_first(l2n, locusid, locusname) ==
  IF locusid \in DOMAIN l2n THEN l2n ELSE DictSet(l2n, locusid, locusname)

\* locusid2name[locusid] = locusname
locus_record(l2n, locusid, locusname) == DictSet(l2n, locusid, locusname)

\* variant: the lookups default to '' (dict.get) instead of raising KeyError
mrna_resolve_with_default(l2n, g2l, geneid, protid) ==
  LET locusid == IF geneid \in DOMAIN g2l THEN g2l[geneid] ELSE <<>>
      locusname == IF locusid \in DOMAIN l2n THEN l2n[locusid] ELSE <<>>
  IN [yield |-> << <<protid, locusname>> >>, raised |-> FALSE]

\* variant: the pair is yielded the other way round
mrna_resolve_swapped(l2n, g2l, geneid, protid) ==
  IF geneid \notin DOMAIN g2l THEN [yield |-> <<>>, raised |-> TRUE]
  ELSE IF g2l[geneid] \notin DOMAIN l2n THEN [yield |-> <<>>, raised |-> TRUE]
  ELSE [yield |-> << <<l2n[g2l[geneid]], protid>> >>, raised |-> FALSE]

\* the mRNA branch once the pattern matched: both lookups raise KeyError on a
\* missing key, otherwise the pair is yielded
mrna_resolve(l2n, g2l, geneid, protid) ==
  IF geneid \notin DOMAIN g2l THEN [yield |-> <<>>, raised |-> TRUE]
  ELSE IF g2l[geneid] \notin DOMAIN l2n THEN [yield |-> <<>>, raised |-> TRUE]
  ELSE [yield |-> << <<protid, l2n[g2l[geneid]]>> >>, raised |-> FALSE]

protein_mapping_line(l2n, g2l, line) ==
  LET fields == split(line, "\t")
      same == [locusid2name |-> l2n, gene2loci |-> g2l, yield |-> <<>>, raised |-> FALSE]
  IN
  IF Len(fields) # 9 THEN same
  ELSE LET feattype == fields[3]
           attrs == fields[9]
       IN
       IF feattype = tLocus THEN
         LET idmatch == SearchValueThenLater(kID, kName, attrs) IN
         IF idmatch.matched
         THEN [same EXCEPT !.locusid2name = locus_record(l2n, idmatch.g1, idmatch.g2)]
         ELSE same
       ELSE IF feattype = tGene THEN
         LET idmatch == SearchValueThenNext(kID, kParent, attrs) IN
         IF ~idmatch.matched THEN [same EXCEPT !.raised = TRUE]
         ELSE [same EXCEPT !.gene2loci = gene_record(g2l, idmatch.g1, idmatch.g2)]
       ELSE IF feattype = tMRNA THEN
         LET idmatch == SearchValueThenLater(kParent, kName, attrs) IN
         IF ~idmatch.matched THEN [same EXCEPT !.raised = TRUE]
         ELSE LET r == mrna_resolve(l2n, g2l, idmatch.g1, mapping_protid(idmatch.g2)) IN
              [same EXCEPT !.yield = r.yield, !.raised = r.raised]
       ELSE same

----------------------------------------------------------------------------
(* parse_intron_accessions: one iteration of `for line in instream`.       *)

\* line += ';accession=%s' % accession
intron_annotate(line, accession) == line \o <<";">> \o kAccession \o accession

\* variant: the first of several comma-joined parents is looked up
intron_accession_first_parent(i2a, parentid) ==
  LET first == split(parentid, ",")[1] IN
  IF first \notin DOMAIN i2a THEN [raised |-> TRUE, accession |-> <<>>]
  ELSE [raised |-> FALSE, accession |-> i2a[first]]

\* the lookup of the intron's parent: the assert on ',' and the KeyError
intron_accession(i2a, parentid) ==
  IF "," \in {parentid[k] : k \in 1..Len(parentid)} THEN [raised |-> TRUE, accession |-> <<>>]
  ELSE IF parentid \notin DOMAIN i2a THEN [raised |-> TRUE, accession |-> <<>>]
  ELSE [raised |-> FALSE, accession |-> i2a[parentid]]

\* variant: id_to_accession.setdefault(molid, accession), the first one is kept
accession_record_keeps_first(i2a, line) ==
  LET idmatch == SearchValue(kID, line)
      accmatch == SearchValue(kAccession, line)
  IN IF idmatch.matched /\ accmatch.matched /\ idmatch.g1 \notin DOMAIN i2a
     THEN DictSet(i2a, idmatch.g1, accmatch.g1)
     ELSE i2a

\* id_to_accession[molid] = accession, when both patterns match
accession_record(i2a, line) ==
  LET idmatch == SearchValue(kID, line)
      accmatch == SearchValue(kAccession, line)
  IN IF idmatch.matched /\ accmatch.matched
     THEN DictSet(i2a, idmatch.g1, accmatch.g1)
     ELSE i2a

\* '\tintron\t' in line
intron_selected(line) == Contains(line, <<"\t">> \o tIntron \o <<"\t">>)

parse_intron_accessions_line(i2a, rawline) ==
  LET line == rstrip(rawline)
      table == accession_record(i2a, line)
  IN
  IF ~intron_selected(line)
  THEN [id_to_accession |-> table, yield |-> <<line>>, raised |-> FALSE]
  ELSE LET parent == SearchValue(kParent, line) IN
       \* re.search(...) is None: .group raises AttributeError
       IF ~parent.matched
       THEN [id_to_accession |-> table, yield |-> <<>>, raised |-> TRUE]
       ELSE LET r == intron_accession(table, parent.g1) IN
            IF r.raised
            THEN [id_to_accession |-> table, yield |-> <<>>, raised |-> TRUE]
            ELSE [id_to_accession |-> table,
                  yield |-> <<intron_annotate(line, r.accession)>>,
                  raised |-> FALSE]

----------------------------------------------------------------------------
(* BeeBaseDB.format_gdna and format_prot: the line written for a line read.*)

\* variant: the headers are recognised by `'scaffold' in line` and
\* `'Group' in line` instead of line.startswith
format_gdna_line_unanchored(lbl, line) ==
  IF Contains(line, sScaffold)
  THEN replace(line, sScaffold, lbl \o sScf)
  ELSE IF Contains(line, sGroup)
  THEN replace(line, sGroup, lbl \o sGroup)
  ELSE line

format_gdna_line(lbl, line) ==
  IF startswith(line, <<">">> \o sScaffold)
  THEN replace(line, sScaffold, lbl \o sScf)
  ELSE IF startswith(line, <<">">> \o sGroup)
  THEN replace(line, sGroup, lbl \o sGroup)
  ELSE line

\* line.replace('>', '>%s ' % protid)
prot_defline(line, protid) == replace(line, <<">">>, <<">">> \o protid \o <<" ">>)

format_prot_line(line) ==
  IF startswith(line, GnlPrefix)
  THEN LET deflinematch == SearchGnl(line) IN
       IF ~deflinematch.matched THEN [write |-> <<>>, raised |-> TRUE]
       ELSE [write |-> <<prot_defline(line, deflinematch.g1)>>, raised |-> FALSE]
  ELSE [write |-> <<line>>, raised |-> FALSE]

----------------------------------------------------------------------------
(* The input lines explored.  A GFF3 record has nine tab-separated columns *)
(* (seqid, source, type, start, end, score, strand, phase, attributes) and *)
(* ends with a newline, as a line read from a text file does.              *)

Gff(source, type, attrs) ==
  <<"c", "\t">> \o source \o <<"\t">> \o type
    \o <<"\t", "1", "\t", "2", "\t", ".", "\t", "+", "\t", ".", "\t">> \o attrs \o <<"\n">>

NoSource == <<".">>

lnComment == <<"#", "#", "#", "\n">>

lnLocusFoo == Gff(NoSource, tLocus, kID \o <<"L", "1", ";">> \o kName \o <<"F", "o", "o">>)

lnLocusBaz ==
  Gff(NoSource, tLocus,
      kID \o <<"L", "1", ";", "N", "o", "t", "e", "=", "x", ";">> \o kName \o <<"B", "a", "z">>)

\* a locus record without a Name
lnLocusNoName == Gff(NoSource, tLocus, kID \o <<"L", "1">>)

lnGene == Gff(NoSource, tGene, kID \o <<"G", "1", ";">> \o kParent \o <<"L", "1">>)

\* the same gene under a locus that no record declares
lnGeneOfL2 == Gff(NoSource, tGene, kID \o <<"G", "1", ";">> \o kParent \o <<"L", "2">>)

lnGeneNoParent == Gff(NoSource, tGene, kID \o <<"G", "1">>)

lnMrnaRA ==
  Gff(NoSource, tMRNA,
      kID \o <<"M", "1", ";">> \o kParent \o <<"G", "1", ";">> \o kName \o <<"B", "a", "r", "-", "R", "A">>)

lnMrnaRB ==
  Gff(NoSource, tMRNA,
      kID \o <<"M", "2", ";">> \o kParent \o <<"G", "1", ";">> \o kName \o <<"B", "a", "r", "-", "R", "B">>)

lnMrnaKRAS ==
  Gff(NoSource, tMRNA, kParent \o <<"G", "1", ";">> \o kName \o <<"K", "-", "R", "A", "S">>)

lnMrnaGeneName ==
  Gff(NoSource, tMRNA,
      kParent \o <<"G", "1", ";">> \o kName \o <<"B", "a", "r", "-", "R", "A", ";", "g", "e", "n", "e">>
        \o kName \o <<"Q">>)

lnMrnaNoName == Gff(NoSource, tMRNA, kParent \o <<"G", "1">>)

\* a gene record produced by a source called mRNA
lnGeneFromMrnaSource ==
  Gff(tMRNA, tGene,
      kID \o <<"G", "1", ";">> \o kParent \o <<"L", "1", ";">> \o kName \o <<"Z", "e", "d", "-", "R", "A">>)

MappingLines ==
  {lnComment, lnLocusFoo, lnLocusBaz, lnLocusNoName, lnGene, lnGeneOfL2, lnGeneNoParent,
   lnMrnaRA, lnMrnaRB, lnMrnaGeneName, lnMrnaNoName}

ProtidLines ==
  {lnComment, lnLocusFoo, lnGene, lnGeneFromMrnaSource,
   lnMrnaRA, lnMrnaRB, lnMrnaKRAS, lnMrnaGeneName, lnMrnaNoName}

\* the lines of an annotation file given to both BeeBase annotation passes
AnnotationLines == MappingLines \cup ProtidLines

lnTranscriptA1 == Gff(NoSource, tMRNA, kID \o <<"T", "1", ";">> \o kAccession \o <<"A", "1">>)

lnTranscriptA2 == Gff(NoSource, tMRNA, kID \o <<"T", "1", ";">> \o kAccession \o <<"A", "2">>)

lnIntron == Gff(NoSource, tIntron, kParent \o <<"T", "1">>)

lnIntronTwoParents == Gff(NoSource, tIntron, kParent \o <<"T", "1", ",", "T", "2">>)

lnIntronNoParent == Gff(NoSource, tIntron, kID \o <<"I", "1">>)

\* an intron that already carries the accession of its transcript
lnIntronWithAccession ==
  Gff(NoSource, tIntron, kParent \o <<"T", "1", ";">> \o kAccession \o <<"A", "1">>)

\* an exon whose attribute column ends with a blank
lnExonTrailingBlank == Gff(NoSource, tExon, kParent \o <<"T", "1", " ">>)

\* an exon record produced by a source called intron
lnExonFromIntronSource == Gff(tIntron, tExon, kParent \o <<"T", "1">>)

IntronLines ==
  {lnComment, lnTranscriptA1, lnTranscriptA2, lnIntron, lnIntronTwoParents,
   lnIntronNoParent, lnIntronWithAccession, lnExonTrailingBlank, lnExonFromIntronSource}

lnScaffold == <<">">> \o sScaffold \o <<"1", "\n">>

lnGroup == <<">">> \o sGroup \o <<"7", "\n">>

lnScaffoldTwice == <<">">> \o sScaffold \o <<"2", " ">> \o sScaffold \o <<"\n">>

lnOtherHeader == <<">", "c", "h", "r", "1", "\n">>

lnResidues == <<"A", "C", "G", "T", "\n">>

GdnaLines == {lnScaffold, lnGroup, lnScaffoldTwice, lnOtherHeader, lnResidues}

\* the labels a caller may give: a species code, the empty label, and labels
\* that are themselves one of the rewritten tokens
Labels == {<<"X">>, <<>>, sGroup, sScaffold}

lnGnl == GnlPrefix \o <<"N", "S", "|", "P", "1", " ", "x", "\n">>

lnGnlArrow == GnlPrefix \o <<"N", "S", "|", "P", "1", " ", "a", ">", "b", "\n">>

lnGnlTruncated == GnlPrefix \o <<"N", "S", "\n">>

lnSwissprot == <<">", "s", "p", "|", "P", "2", "\n">>

ProtLines == {lnGnl, lnGnlArrow, lnGnlTruncated, lnSwissprot, lnResidues}

----------------------------------------------------------------------------
(* State machine.  pc[o] is "idle" for a pass that is not running,         *)
(* "reading" inside the loop, "failed" once an exception has propagated    *)
(* out of the pass, "done" when the loop has ended normally.               *)

Start(o, lbl) ==
  /\ instream = <<>>
  /\ pc = [p \in Ops |-> IF p = o THEN "reading" ELSE "idle"]
  /\ label = lbl
  /\ protids = <<>>
  /\ locusid2name = EmptyDict
  /\ gene2loci = EmptyDict
  /\ pairs = <<>>
  /\ id_to_accession = EmptyDict
  /\ yielded = <<>>
  /\ outstream = <<>>
  /\ reformatted = <<>>

Advance(o, line, raised) ==
  /\ instream' = Append(instream, line)
  /\ pc' = IF raised THEN [pc EXCEPT ![o] = "failed"] ELSE pc

gff3_protids(line) ==
  /\ pc["gff3_protids"] = "reading"
  /\ Len(instream) < MaxProtidLines
  /\ LET r == gff3_protids_line(line) IN
     /\ protids' = protids \o r.yield
     /\ Advance("gff3_protids", line, r.raised)
  /\ UNCHANGED <<label, locusid2name, gene2loci, pairs, id_to_accession, yielded, outstream,
                 reformatted>>

protein_mapping(line) ==
  /\ pc["protein_mapping"] = "reading"
  /\ Len(instream) < MaxMappingLines
  /\ LET r == protein_mapping_line(locusid2name, gene2loci, line) IN
     /\ locusid2name' = r.locusid2name
     /\ gene2loci' = r.gene2loci
     /\ pairs' = pairs \o r.yield
     /\ Advance("protein_mapping", line, r.raised)
  /\ UNCHANGED <<label, protids, id_to_accession, yielded, outstream,
                 reformatted>>

parse_intron_accessions(line) ==
  /\ pc["parse_intron_accessions"] = "reading"
  /\ Len(instream) < MaxIntronLines
  /\ LET r == parse_intron_accessions_line(id_to_accession, line) IN
     /\ id_to_accession' = r.id_to_accession
     /\ yielded' = yielded \o r.yield
     /\ Advance("parse_intron_accessions", line, r.raised)
  /\ UNCHANGED <<label, protids, locusid2name, gene2loci, pairs, outstream,
                 reformatted>>

format_gdna(line) ==
  /\ pc["format_gdna"] = "reading"
  /\ Len(instream) < MaxGdnaLines
  /\ outstream' = Append(outstream, format_gdna_line(label, line))
  /\ Advance("format_gdna", line, FALSE)
  /\ UNCHANGED <<label, protids, locusid2name, gene2loci, pairs, id_to_accession, yielded,
                 reformatted>>

format_prot(line) ==
  /\ pc["format_prot"] = "reading"
  /\ Len(instream) < MaxProtLines
  /\ LET r == format_prot_line(line) IN
     /\ outstream' = outstream \o r.write
     /\ Advance("format_prot", line, r.raised)
  /\ UNCHANGED <<label, protids, locusid2name, gene2loci, pairs, id_to_accession, yielded,
                 reformatted>>

\* gff3_protids and protein_mapping each reading the same annotation file:
\* the next line of the file goes through one iteration of either loop; a
\* pass that has failed reads no more
gff3_protids_and_protein_mapping(line) ==
  /\ pc["gff3_protids"] \in {"reading", "failed"}
  /\ pc["protein_mapping"] \in {"reading", "failed"}
  /\ "reading" \in {pc["gff3_protids"], pc["protein_mapping"]}
  /\ Len(instream) < MaxAnnotationLines
  /\ LET a == gff3_protids_line(line)
         b == protein_mapping_line(locusid2name, gene2loci, line)
         ina == pc["gff3_protids"] = "reading"
         inb == pc["protein_mapping"] = "reading"
     IN
     /\ protids' = IF ina THEN protids \o a.yield ELSE protids
     /\ locusid2name' = IF inb THEN b.locusid2name ELSE locusid2name
     /\ gene2loci' = IF inb THEN b.gene2loci ELSE gene2loci
     /\ pairs' = IF inb THEN pairs \o b.yield ELSE pairs
     /\ pc' = [pc EXCEPT !["gff3_protids"] = IF ina /\ a.raised THEN "failed" ELSE @,
                         !["protein_mapping"] = IF inb /\ b.raised THEN "failed" ELSE @]
  /\ instream' = Append(instream, line)
  /\ UNCHANGED <<label, id_to_accession, yielded, outstream, reformatted>>

\* format_gdna run again, with the same label, on what the finished first run
\* wrote: one iteration of its loop on the next line of outstream
format_gdna_again ==
  /\ pc["format_gdna"] = "done"
  /\ Len(reformatted) < Len(outstream)
  /\ reformatted' =
       Append(reformatted, format_gdna_line(label, outstream[Len(reformatted) + 1]))
  /\ UNCHANGED <<instream, pc, label, protids, locusid2name, gene2loci, pairs,
                 id_to_accession, yielded, outstream>>

\* the input iterator is exhausted: the loop of the running pass ends
Exhausted ==
  /\ \E o \in Ops : pc[o] = "reading" /\ pc' = [pc EXCEPT ![o] = "done"]
  /\ UNCHANGED <<instream, label, protids, locusid2name, gene2loci, pairs,
                 id_to_accession, yielded, outstream,
                 reformatted>>

DefaultLabel == <<"X">>

InitProtids == Start("gff3_protids", DefaultLabel)

NextProtids == (\E line \in ProtidLines : gff3_protids(line)) \/ Exhausted

SpecProtids == InitProtids /\ [][NextProtids]_vars

InitMapping == Start("protein_mapping", DefaultLabel)

NextMapping == (\E line \in MappingLines : protein_mapping(line)) \/ Exhausted

SpecMapping == InitMapping /\ [][NextMapping]_vars

InitIntrons == Start("parse_intron_accessions", DefaultLabel)

NextIntrons == (\E line \in IntronLines : parse_intron_accessions(line)) \/ Exhausted

SpecIntrons == InitIntrons /\ [][NextIntrons]_vars

InitGdna == \E lbl \in Labels : Start("format_gdna", lbl)

NextGdna == (\E line \in GdnaLines : format_gdna(line)) \/ Exhausted

SpecGdna == InitGdna /\ [][NextGdna]_vars

InitGdnaTwice == InitGdna

NextGdnaTwice == NextGdna \/ format_gdna_again

SpecGdnaTwice == InitGdnaTwice /\ [][NextGdnaTwice]_vars

InitAnnotation ==
  /\ instream = <<>>
  /\ pc = [p \in Ops |-> IF p \in {"gff3_protids", "protein_mapping"} THEN "reading" ELSE "idle"]
  /\ label = DefaultLabel
  /\ protids = <<>>
  /\ locusid2name = EmptyDict
  /\ gene2loci = EmptyDict
  /\ pairs = <<>>
  /\ id_to_accession = EmptyDict
  /\ yielded = <<>>
  /\ outstream = <<>>
  /\ reformatted = <<>>

\* the file ends for both passes at the same line
ExhaustedAnnotation ==
  /\ "reading" \in {pc["gff3_protids"], pc["protein_mapping"]}
  /\ pc' = [o \in Ops |-> IF pc[o] = "reading" THEN "done" ELSE pc[o]]
  /\ UNCHANGED <<instream, label, protids, locusid2name, gene2loci, pairs,
                 id_to_accession, yielded, outstream, reformatted>>

NextAnnotation ==
  \/ \E line \in AnnotationLines : gff3_protids_and_protein_mapping(line)
  \/ ExhaustedAnnotation

SpecAnnotation == InitAnnotation /\ [][NextAnnotation]_vars

InitProt == Start("format_prot", DefaultLabel)

NextProt == (\E line \in ProtLines : format_prot(line)) \/ Exhausted

SpecProt == InitProt /\ [][NextProt]_vars

\* Every way of running the passes.  Passes started on the same stream share
\* its iterator: a line one of them takes alone does not reach the other.
Init ==
  InitProtids \/ InitMapping \/ InitAnnotation \/ InitIntrons \/ InitGdnaTwice \/ InitProt

Next ==
  NextProtids \/ NextMapping \/ NextAnnotation \/ NextIntrons \/ NextGdnaTwice \/ NextProt

Spec == Init /\ [][Next]_vars

----------------------------------------------------------------------------
(* Vocabulary of the properties: records and attributes as GFF3 defines    *)
(* them, read off the input independently of the passes' own patterns.     *)

\* the line without its line terminator
chomp(line) ==
  IF line # <<>> /\ line[Len(line)] = "\n" THEN SubSeq(line, 1, Len(line) - 1) ELSE line

\* the value of the attribute `key` ("ID=", ...) among the ;-separated
\* attributes av, <<>> when there is none
AttrIn(av, key) ==
  LET hit == {k \in 1..Len(av) : startswith(av[k], key)} IN
  IF hit = {} THEN <<>> ELSE SubSeq(av[Min(hit)], Len(key) + 1, Len(av[Min(hit)]))

NoRecord == [type |-> <<>>, ID |-> <<>>, Parent |-> <<>>, Name |-> <<>>, accession |-> <<>>]

\* a line as a record: its type column and the attributes of its ninth
\* column; a line that has not nine columns is no record
Record(line) ==
  LET cols == split(chomp(line), "\t") IN
  IF Len(cols) # 9 THEN NoRecord
  ELSE LET av == split(cols[9], ";") IN
       [type |-> cols[3], ID |-> AttrIn(av, kID), Parent |-> AttrIn(av, kParent),
        Name |-> AttrIn(av, kName), accession |-> AttrIn(av, kAccession)]

RECURSIVE Records(_)
\* the lines of a stream as records
Records(s) ==
  IF s = <<>> THEN <<>> ELSE Append(Records(SubSeq(s, 1, Len(s) - 1)), Record(s[Len(s)]))

\* the positions of the records of type t
RecordsAt(R, t) == {i \in 1..Len(R) : R[i].type = t}

\* the rank of record i among the records of type t
Rank(R, t, i) == Cardinality({j \in 1..i : R[j].type = t})

Running(o) == pc[o] \in {"reading", "done"}

----------------------------------------------------------------------------
(* protein_mapping (SpecMapping)                                           *)

\* the gene records before line i whose ID is gid
GenesBefore(R, i, gid) == {j \in 1..(i - 1) : R[j].type = tGene /\ R[j].ID = gid}

\* the locus records before line i that record a Name for locus lid
NamedLociBefore(R, i, lid) ==
  {j \in 1..(i - 1) : R[j].type = tLocus /\ R[j].ID = lid /\ R[j].Name # <<>>}

\* the locus name the mRNA at line i leads to: the Name of the latest locus
\* record before it for the Parent of the latest gene record before it whose
\* ID is the mRNA's Parent; <<>> when either is missing
LocusNameFor(R, i) ==
  LET genes == GenesBefore(R, i, R[i].Parent) IN
  IF genes = {} THEN <<>>
  ELSE LET loci == NamedLociBefore(R, i, R[Max(genes)].Parent) IN
       IF loci = {} THEN <<>> ELSE R[Max(loci)].Name

BarPA == <<"B", "a", "r", "-", "P", "A">>

Foo == <<"F", "o", "o">>

\* C1: as long as the pass has not failed, the pairs emitted are exactly one
\* per mRNA record of the input read so far, in input order, and nothing for
\* any other line; the locus name of the pair of an mRNA is the Name recorded
\* by the latest earlier locus record for the Parent of the latest earlier
\* gene record that the mRNA names as its Parent.  The stream locus L1 "Foo",
\* gene G1 of L1, mRNA Bar-RA of G1 yields exactly [(Bar-PA, Foo)].
C1_PairPerMrna ==
  Running("protein_mapping") =>
    LET R == Records(instream) IN
    /\ Len(pairs) = Cardinality(RecordsAt(R, tMRNA))
    /\ \A i \in RecordsAt(R, tMRNA) :
         /\ LocusNameFor(R, i) # <<>>
         /\ pairs[Rank(R, tMRNA, i)][2] = LocusNameFor(R, i)
    /\ (instream = <<lnLocusFoo, lnGene, lnMrnaRA>> => pairs = << <<BarPA, Foo>> >>)

\* C1 witness: the pass has ended normally on a stream in which a locus was
\* renamed before the mRNA was read, and the pair carries the later name.
C1_Witness ==
  /\ pc["protein_mapping"] = "done"
  /\ instream = <<lnLocusFoo, lnGene, lnLocusBaz, lnMrnaRA>>
  /\ pairs = << <<BarPA, <<"B", "a", "z">> >> >>

\* a gene record whose Parent locus was not recorded by an earlier locus record
DanglingGene(R, j) ==
  /\ R[j].type = tGene
  /\ R[j].Parent # <<>>
  /\ NamedLociBefore(R, j, R[j].Parent) = {}

C3_OneToOne ==
  pc["protein_mapping"] = "done" =>
    \A a, b \in 1..Len(pairs) :
      a # b => /\ pairs[a][1] # pairs[b][1]
               /\ (pairs[a][2] = pairs[b][2] => pairs[a][1] = pairs[b][1])

\* C3 amended: the mapping is many-to-one.  The locus name of a pair depends
\* only on the mRNA's Parent gene and the tables at that point: two mRNA
\* records with the same Parent, with no locus or gene record read between
\* them, get the same locus name whatever their protein ids.
C3_SameGeneSameLocus ==
  Running("protein_mapping") =>
    LET R == Records(instream) IN
    \A i, j \in RecordsAt(R, tMRNA) :
      (/\ i < j
       /\ R[i].Parent = R[j].Parent
       /\ \A k \in i..j : R[k].type # tLocus /\ R[k].type # tGene)
      => pairs[Rank(R, tMRNA, i)][2] = pairs[Rank(R, tMRNA, j)][2]

\* C3 witness: a completed pass paired one locus name with two protein ids.
C3_Witness ==
  /\ pc["protein_mapping"] = "done"
  /\ Len(pairs) = 2
  /\ pairs[1][2] = pairs[2][2]
  /\ pairs[1][1] # pairs[2][1]

----------------------------------------------------------------------------
(* gff3_protids (SpecProtids)                                              *)

\* C4: as long as the pass has not failed, it has emitted exactly one
\* identifier per record read whose type column is mRNA and none for any
\* other line, the k-th identifier being the one derived from the k-th mRNA
\* record; this holds after every line read, each identifier being yielded
\* before the next line is read.
C4_OneIdPerMrnaRecord ==
  Running("gff3_protids") =>
    LET R == Records(instream) IN
    /\ Len(protids) = Cardinality(RecordsAt(R, tMRNA))
    /\ \A i \in RecordsAt(R, tMRNA) :
         <<protids[Rank(R, tMRNA, i)]>> = gff3_protids_line(instream[i]).yield

\* the name with a final -RA replaced by -PA, any other name as it is
SuffixSwap(name) ==
  IF Len(name) >= 3 /\ SubSeq(name, Len(name) - 2, Len(name)) = sRA
  THEN SubSeq(name, 1, Len(name) - 3) \o sPA
  ELSE name

\* C5: the protein id emitted for an mRNA record is the record's Name value
\* with the suffix -RA replaced by -PA and every other character unchanged; a
\* Name that does not end in -RA is returned as it is.
C5_SuffixReplaced ==
  (Running("gff3_protids") /\ instream # <<>>) =>
    LET last == Record(instream[Len(instream)]) IN
    last.type = tMRNA =>
      /\ protids # <<>>
      /\ protids[Len(protids)] = SuffixSwap(last.Name)

----------------------------------------------------------------------------
(* parse_intron_accessions (SpecIntrons)                                   *)

\* the lines before line i that carry both ID=t and an accession
AccessionsBefore(R, i, t) ==
  {j \in 1..(i - 1) : R[j].ID = t /\ R[j].accession # <<>>}

SingleParent(r) ==
  r.Parent # <<>> /\ "," \notin {r.Parent[k] : k \in 1..Len(r.Parent)}

\* the intron records whose single parent had an accession recorded earlier
AnnotatedIntrons(R) ==
  {i \in RecordsAt(R, tIntron) :
     SingleParent(R[i]) /\ AccessionsBefore(R, i, R[i].Parent) # {}}

\* ;accession=A, A the accession most recently recorded before line i for the
\* parent of the intron at line i
AccessionSuffix(R, i) ==
  <<";">> \o kAccession \o R[Max(AccessionsBefore(R, i, R[i].Parent))].accession

EndsWith(s, p) == StartsAt(s, Len(s) - Len(p) + 1, p)

\* C6 as stated: the line emitted for an intron whose single parent T had an
\* accession A recorded earlier is the input line with ;accession=A appended,
\* A the most recent one, and ;accession=A occurs exactly once in it.
C6_AppendedAndUnique ==
  LET R == Records(instream) IN
  \A i \in AnnotatedIntrons(R) :
    /\ Len(yielded) >= i
    /\ yielded[i] = chomp(instream[i]) \o AccessionSuffix(R, i)
    /\ Occurrences(yielded[i], AccessionSuffix(R, i)) = 1

\* C6 amended: the line emitted for such an intron is the input line without
\* its trailing whitespace, with ;accession=A appended once at its end, A the
\* accession most recently recorded for T; ;accession=A occurs in the emitted
\* line once more than in the input line, so exactly once unless the input
\* intron already carried it.
C6_AppendedOnce ==
  LET R == Records(instream) IN
  \A i \in AnnotatedIntrons(R) :
    /\ Len(yielded) >= i
    /\ yielded[i] = rstrip(instream[i]) \o AccessionSuffix(R, i)
    /\ Occurrences(yielded[i], AccessionSuffix(R, i))
         = Occurrences(instream[i], AccessionSuffix(R, i)) + 1

\* C6 witness: an intron was emitted after two accessions had been recorded
\* for its parent, the second different from the first.
C6_Witness ==
  /\ instream = <<lnTranscriptA1, lnTranscriptA2, lnIntron>>
  /\ Len(yielded) = 3
  /\ yielded[3] = chomp(lnIntron) \o <<";">> \o kAccession \o <<"A", "2">>

\* C7: as long as the pass has not failed, it has emitted as many lines as it
\* has read, the i-th for the i-th, and every line that is not an intron
\* record is emitted with exactly the content it had in the input.
C7_LineForLine ==
  Running("parse_intron_accessions") =>
    LET R == Records(instream) IN
    /\ Len(yielded) = Len(instream)
    /\ \A i \in 1..Len(instream) :
         R[i].type # tIntron => yielded[i] = chomp(instream[i])

\* C8: an intron record is emitted only when its Parent names exactly one
\* parent id that has an accession recorded from an earlier line, and then
\* with that accession; when the Parent is comma-joined or has no recorded
\* accession the pass fails at that line and emits nothing for it or after
\* it, never choosing one of several parents.
C8_IntronNeedsOneKnownParent ==
  LET R == Records(instream) IN
  \A i \in RecordsAt(R, tIntron) :
    IF i \in AnnotatedIntrons(R)
    THEN Len(yielded) >= i /\ EndsWith(yielded[i], AccessionSuffix(R, i))
    ELSE /\ pc["parse_intron_accessions"] = "failed"
         /\ i = Len(instream)
         /\ Len(yielded) = i - 1

\* C8 witness: the pass failed at an intron with two comma-joined parents, the
\* first of which had an accession recorded.
C8_Witness ==
  /\ pc["parse_intron_accessions"] = "failed"
  /\ instream = <<lnTranscriptA1, lnComment, lnIntronTwoParents>>
  /\ Len(yielded) = 2

----------------------------------------------------------------------------
(* format_gdna (SpecGdna)                                                  *)

\* the header with only its prefix rewritten
PrefixRewritten(lbl, line) ==
  IF startswith(line, <<">">> \o sScaffold)
  THEN <<">">> \o lbl \o sScf \o SubSeq(line, Len(sScaffold) + 2, Len(line))
  ELSE IF startswith(line, <<">">> \o sGroup)
  THEN <<">">> \o lbl \o sGroup \o SubSeq(line, Len(sGroup) + 2, Len(line))
  ELSE line

\* C9: format_gdna writes as many lines as it reads; a line that does not
\* begin with >scaffold or >Group is written unchanged; a header is changed
\* only in its prefix (>scaffold becomes ><label>Scf_, >Group becomes
\* ><label>Group), the remainder of the line being written exactly as read.
C9_OnlyPrefixChanged ==
  /\ Len(outstream) = Len(instream)
  /\ \A i \in 1..Len(instream) : outstream[i] = PrefixRewritten(label, instream[i])

----------------------------------------------------------------------------
(* format_gdna applied twice (SpecGdnaTwice)                               *)

\* the lines the second run has written are the lines it read
SecondPassUnchanged ==
  \A i \in 1..Len(reformatted) : reformatted[i] = outstream[i]

\* C11 as stated: for every label, each line written by a second format_gdna
\* run over the output of a first run is the line it read, so that the second
\* run leaves the output of the first unchanged.
C11_SecondPassUnchanged ==
  /\ Len(reformatted) <= Len(outstream)
  /\ SecondPassUnchanged

\* the label begins with one of the tokens format_gdna looks for
LabelIsToken(lbl) == startswith(lbl, sScaffold) \/ startswith(lbl, sGroup)

\* C11 amended: when the label does not itself begin with scaffold or Group,
\* each line written by a second format_gdna run over the output of a first
\* run is the line it read: a header rewritten to ><label>Scf_... or
\* ><label>Group... is not rewritten again.
C11_SecondPassUnchangedForPlainLabel ==
  ~LabelIsToken(label) =>
    /\ Len(reformatted) <= Len(outstream)
    /\ SecondPassUnchanged

\* C11 witness: with label X the second run has read again, and written as
\* they were, a rewritten >scaffold header, a rewritten >Group header and a
\* header in which scaffold occurred twice.
C11_Witness ==
  /\ label = <<"X">>
  /\ instream = <<lnScaffold, lnGroup, lnScaffoldTwice>>
  /\ outstream[1] = <<">", "X">> \o sScf \o <<"1", "\n">>
  /\ outstream[2] = <<">", "X">> \o sGroup \o <<"7", "\n">>
  /\ outstream[1] # instream[1]
  /\ reformatted = outstream

----------------------------------------------------------------------------
(* format_prot (SpecProt)                                                  *)

\* the <id> of a header >gnl|<namespace>|<id> ...: the third |-separated
\* field up to the first whitespace
GnlId(line) ==
  LET f == split(line, "|") IN
  IF Len(f) < 3 THEN <<>> ELSE SubSeq(f[3], 1, RunEnd(f[3], 1, Whitespace))

\* C10: as long as the pass has not failed, every header >gnl|<namespace>|<id>
\* ... is written as ><id>, one space, and the original line content after
\* its leading >, all original text unchanged; a line that does not start
\* with >gnl| is written unchanged.
C10_IdPrepended ==
  Running("format_prot") =>
    /\ Len(outstream) = Len(instream)
    /\ \A i \in 1..Len(instream) :
         outstream[i] = IF startswith(instream[i], GnlPrefix)
                        THEN <<">">> \o GnlId(instream[i]) \o <<" ">> \o Tail(instream[i])
                        ELSE instream[i]

----------------------------------------------------------------------------
(* gff3_protids and protein_mapping on the same file (SpecAnnotation)      *)

\* the first components of the pairs
ProteinIdsOf(ps) == [i \in 1..Len(ps) |-> ps[i][1]]

\* C12: on every annotation file on which both gff3_protids and
\* protein_mapping run to the end, the protein ids yielded by gff3_protids
\* are, in the same order, the first components of the pairs yielded by
\* protein_mapping.
C12_SameProteinIds ==
  (pc["gff3_protids"] = "done" /\ pc["protein_mapping"] = "done") =>
    protids = ProteinIdsOf(pairs)

====
